---- MODULE Spec2Model ----
(***************************************************************************)
(* Model of src/src/main.rs: the one-way sync client.  One run of main()   *)
(* is a sequence of steps cut at its I/O calls (probe, album listing,      *)
(* ledger load, directory scan, upload, link, File::create, write).  The   *)
(* persisted ledger file (HISTORY_FILE) and the directory survive a run;   *)
(* everything else is rebuilt by the next run.                             *)
(***************************************************************************)
EXTENDS Integers, Sequences, FiniteSets, TLC

(* ------------------------------ bounds -------------------------------- *)
\* number of candidate image files in SCREENSHOTS_PATH
MaxFiles == 2
\* modification timestamps range over 1..MaxTime
MaxTime == 2

(* --------------------------- program constants ------------------------ *)
\* SystemTime::UNIX_EPOCH, the sort key of an entry whose metadata is unreadable
UNIX_EPOCH == 0
\* reqwest::StatusCode values upload_asset branches on
CREATED == 201
OK == 200
CONFLICT == 409
\* a status that is none of the three above
OTHER_STATUS == 500
DUPLICATE_UNKNOWN_ID == "DUPLICATE_UNKNOWN_ID"

(* ------------------------------ universes ----------------------------- *)
\* file names of the candidate entries (extension already on the allow-list)
Filenames == 1..MaxFiles
\* meta[f] = NoMetadata: fs::metadata(path) fails for f (e.g. a dangling link).
\* The directory does not change while the tool runs or between its runs, so
\* the metadata read of the sort (104) and that of upload_asset (190) agree.
NoMetadata == 0
FileMeta == [Filenames -> {NoMetadata} \cup (1..MaxTime)]

\* asset ids the server can put in a response body
AssetIds == {"0a1b-asset", DUPLICATE_UNKNOWN_ID}
\* a body that does not deserialize as AssetResponse (empty, HTML, ...)
Unparseable == "<unparseable>"
Bodies == AssetIds \cup {Unparseable}
NoResponse == [t |-> "none", status |-> 0, body |-> Unparseable]
TransportError == [t |-> "transport_error", status |-> 0, body |-> Unparseable]
ServerResponses ==
    [t : {"response"}, status : {CONFLICT, CREATED, OK, OTHER_STATUS}, body : Bodies]
      \cup {TransportError}

\* IMMICH_LOCAL_URL / IMMICH_EXTERNAL_URL, "" when unset (unwrap_or_default)
Urls == {"", "http://local", "http://external"}
ProbeResults == {"transport_error", "status_200", "status_404"}

\* IMMICH_ALBUM_NAME and what GET /api/albums can answer
album_name == "Screenshots"
Album == [id : {"album-1", "album-2"}, album_name : {album_name, "Other"}]
AlbumLists ==
    {<<>>} \cup {<<a>> : a \in Album} \cup {<<a, b>> : a \in Album, b \in Album}
ListingResponses ==
    {[t |-> "transport_error", albums |-> <<>>],
     [t |-> "error_status", albums |-> <<>>],
     [t |-> "bad_json", albums |-> <<>>]}
      \cup [t : {"ok"}, albums : AlbumLists]

\* the ledger file: absent, unparseable (empty or a prefix of the JSON text),
\* or a JSON list of names.  The list is written from a HashSet and read back
\* into one, so its content is kept as the set of names it lists.
Absent == [kind |-> "absent", names |-> {}]
Partial == [kind |-> "partial", names |-> {}]
ListFile(S) == [kind |-> "list", names |-> S]
Disks == {Absent, Partial} \cup {ListFile(S) : S \in SUBSET Filenames}

Ended == {"done", "aborted", "error", "crashed"}

VARIABLES
    pc,           \* position in main()
    rerun,        \* FALSE in the first run, TRUE in the run that follows it
    disk,         \* content of HISTORY_FILE
    meta,         \* modification time of each directory entry
    base_url,     \* main: base_url
    album_id,     \* main: album_id
    history,      \* main: history
    entries,      \* main: entries, after the sort
    idx,          \* position of the for loop in entries
    filename,     \* main: filename of the iteration
    response,     \* upload_asset: resp, until the commit of the iteration begins
    asset_id,     \* main: asset_id, until the commit of the iteration begins
    count,        \* main: count
    resolved,     \* log: arguments and probe of the get_active_url call
    loaded,       \* log: history as load_history returned it
    invoked,      \* log: files upload_asset was called for, in order
    uploadReqs,   \* log: files a POST /api/assets was sent for, in order
    linkReqs,     \* log: <<file, asset id>> of each PUT .../assets, in order
    nonFailed,    \* log: files whose upload outcome is not Failed / error
    committed,    \* log: files whose save_history returned Ok
    preDisk,      \* log: HISTORY_FILE as it was when the run started
    exit,         \* log: why main returned, "" while it runs
    located,      \* log: the get_album_id call: its requests, answer and result
    link,         \* log: how the last add_to_album call of the run ended
    allCreated,   \* log: every upload_asset call of the run ended in Created
    prev          \* log: how the previous run ended: "none" in the first run,
                  \* "stopped" if it did not list every file and reach the
                  \* end of main, "synced" if it did and every file is in its
                  \* ledger, "unsynced" if it did and some file is not

vars == <<pc, rerun, disk, meta, base_url, album_id, history, entries, idx,
          filename, response, asset_id, count, resolved, loaded, invoked,
          uploadReqs, linkReqs, nonFailed, committed, preDisk, exit, located,
          link, allCreated, prev>>

NoCall == [called |-> FALSE, local |-> "", external |-> "", probe |-> "none",
           chose |-> "none", probes |-> <<>>]
NoListing == [called |-> FALSE, reqs |-> 0, t |-> "none", albums |-> <<>>,
              tag |-> "None", id |-> ""]

(* --------------------------- pure functions --------------------------- *)
SeqToSet(s) == {s[i] : i \in 1..Len(s)}

\* every order read_dir can yield the entries of S in
Orders(S) ==
    {s \in [1..Cardinality(S) -> S] : \A i, j \in 1..Cardinality(S) : i # j => s[i] # s[j]}

\* a resolver that takes the fallback whenever it is set
get_active_url_fallback_first(local, external, probe) ==
    IF external # ""
    THEN [url |-> external, chose |-> "fallback", probes |-> <<>>]
    ELSE IF local # "" /\ probe # "transport_error"
    THEN [url |-> local, chose |-> "primary", probes |-> <<local>>]
    ELSE [url |-> "", chose |-> "none",
          probes |-> IF local # "" THEN <<local>> ELSE <<>>]

\* get_active_url: the url returned ("" for None), which of the two arguments
\* it is, and the probes sent; probe is what the ping to local answers
get_active_url(local, external, probe) ==
    IF local # "" /\ probe # "transport_error"
    THEN [url |-> local, chose |-> "primary", probes |-> <<local>>]
    ELSE [url |-> external,
          chose |-> IF external # "" THEN "fallback" ELSE "none",
          probes |-> IF local # "" THEN <<local>> ELSE <<>>]

\* a scan of the listing that keeps the last match instead of returning the first
RECURSIVE FirstMatch_keeps_last(_, _)
FirstMatch_keeps_last(albums, name) ==
    IF albums = <<>> THEN [tag |-> "None", id |-> ""]
    ELSE IF albums[Len(albums)].album_name = name
         THEN [tag |-> "Some", id |-> albums[Len(albums)].id]
         ELSE FirstMatch_keeps_last(SubSeq(albums, 1, Len(albums) - 1), name)

\* get_album_id 165-170: the first album of the listing with the name
RECURSIVE FirstMatch(_, _)
FirstMatch(albums, name) ==
    IF albums = <<>> THEN [tag |-> "None", id |-> ""]
    ELSE IF Head(albums).album_name = name
         THEN [tag |-> "Some", id |-> Head(albums).id]
         ELSE FirstMatch(Tail(albums), name)

\* get_album_id: the listing requests sent, and Err, Ok(None) or Ok(Some(id))
get_album_id(listing, name) ==
    IF listing.t # "ok" THEN [reqs |-> 1, tag |-> "Err", id |-> ""]
    ELSE [reqs |-> 1, tag |-> FirstMatch(listing.albums, name).tag,
          id |-> FirstMatch(listing.albums, name).id]

\* the key of entries.sort_by_key
SortKey(m, f) == IF m[f] = NoMetadata THEN UNIX_EPOCH ELSE m[f]

\* x placed after every element whose key is not larger (stable)
RECURSIVE InsertByKey(_, _, _)
InsertByKey(s, x, m) ==
    IF s = <<>> THEN <<x>>
    ELSE IF SortKey(m, Head(s)) <= SortKey(m, x)
         THEN <<Head(s)>> \o InsertByKey(Tail(s), x, m)
         ELSE <<x>> \o s

RECURSIVE StableSort(_, _)
StableSort(s, m) ==
    IF s = <<>> THEN <<>>
    ELSE InsertByKey(StableSort(SubSeq(s, 1, Len(s) - 1), m), s[Len(s)], m)

\* a scan that keeps the order read_dir gave
sort_by_key_unsorted(s, m) == s

sort_by_key(s, m) == StableSort(s, m)

\* a membership test that never finds the name
contains_never(h, f) == FALSE

\* history.contains(&filename)
contains(h, f) == f \in h

\* an upload_asset that reports any answered request as a success
upload_asset_any_status(m, readOk, resp) ==
    IF m = NoMetadata \/ ~readOk
    THEN [sent |-> FALSE, tag |-> "Err", id |-> ""]
    ELSE IF resp.t = "transport_error"
    THEN [sent |-> TRUE, tag |-> "Err", id |-> ""]
    ELSE IF resp.body \in AssetIds
    THEN [sent |-> TRUE, tag |-> "Some", id |-> resp.body]
    ELSE [sent |-> TRUE, tag |-> "Some", id |-> DUPLICATE_UNKNOWN_ID]

\* an upload_asset that goes on without the file's metadata instead of
\* returning the error of fs::metadata
upload_asset_ignores_metadata(m, readOk, resp) ==
    IF ~readOk
    THEN [sent |-> FALSE, tag |-> "Err", id |-> ""]
    ELSE IF resp.t = "transport_error"
    THEN [sent |-> TRUE, tag |-> "Err", id |-> ""]
    ELSE IF resp.status = CREATED \/ resp.status = OK
    THEN IF resp.body \in AssetIds
         THEN [sent |-> TRUE, tag |-> "Some", id |-> resp.body]
         ELSE [sent |-> TRUE, tag |-> "Err", id |-> ""]
    ELSE IF resp.status = CONFLICT
    THEN IF resp.body \in AssetIds
         THEN [sent |-> TRUE, tag |-> "Some", id |-> resp.body]
         ELSE [sent |-> TRUE, tag |-> "Some", id |-> DUPLICATE_UNKNOWN_ID]
    ELSE [sent |-> TRUE, tag |-> "None", id |-> ""]

\* upload_asset: whether the POST was sent, and Ok(Some(id)) / Ok(None) / Err
upload_asset(m, readOk, resp) ==
    IF m = NoMetadata \/ ~readOk
    THEN [sent |-> FALSE, tag |-> "Err", id |-> ""]
    ELSE IF resp.t = "transport_error"
    THEN [sent |-> TRUE, tag |-> "Err", id |-> ""]
    ELSE IF resp.status = CREATED \/ resp.status = OK
    THEN IF resp.body \in AssetIds
         THEN [sent |-> TRUE, tag |-> "Some", id |-> resp.body]
         ELSE [sent |-> TRUE, tag |-> "Err", id |-> ""]
    ELSE IF resp.status = CONFLICT
    THEN IF resp.body \in AssetIds
         THEN [sent |-> TRUE, tag |-> "Some", id |-> resp.body]
         ELSE [sent |-> TRUE, tag |-> "Some", id |-> DUPLICATE_UNKNOWN_ID]
    ELSE [sent |-> TRUE, tag |-> "None", id |-> ""]

\* the branch of upload_asset a response takes, in the words of the outcome table
UploadOutcome(resp) ==
    IF resp.t # "response" THEN "Error"
    ELSE IF resp.status = CREATED
    THEN IF resp.body \in AssetIds THEN "Created" ELSE "Error"
    ELSE IF resp.status = OK
    THEN IF resp.body \in AssetIds THEN "Deduplicated" ELSE "Error"
    ELSE IF resp.status = CONFLICT
    THEN IF resp.body \in AssetIds THEN "RejectedDuplicate" ELSE "RejectedUnknown"
    ELSE "Failed"

NonFailedOutcomes == {"Created", "Deduplicated", "RejectedDuplicate", "RejectedUnknown"}

\* main: whether the link step runs for the id upload_asset returned
ShouldLink(id) == id # DUPLICATE_UNKNOWN_ID

\* a load_history that starts from an empty set whatever the file holds
load_history_ignores_file(d, openOk) ==
    IF d.kind # "absent" /\ ~openOk
    THEN [tag |-> "Err", err |-> "open_error", set |-> {}]
    ELSE [tag |-> "Ok", err |-> "", set |-> {}]

\* a load_history that propagates the parse error of an unparseable file
load_history_strict(d, openOk) ==
    IF d.kind = "absent" THEN [tag |-> "Ok", err |-> "", set |-> {}]
    ELSE IF ~openOk THEN [tag |-> "Err", err |-> "open_error", set |-> {}]
    ELSE IF d.kind = "list" THEN [tag |-> "Ok", err |-> "", set |-> d.names]
    ELSE [tag |-> "Err", err |-> "parse_error", set |-> {}]

\* load_history, given whether File::open succeeds: Err only when it does not;
\* an unparseable file yields the default, the empty list (unwrap_or_default)
load_history(d, openOk) ==
    IF d.kind = "absent" THEN [tag |-> "Ok", err |-> "", set |-> {}]
    ELSE IF ~openOk THEN [tag |-> "Err", err |-> "open_error", set |-> {}]
    ELSE IF d.kind = "list" THEN [tag |-> "Ok", err |-> "", set |-> d.names]
    ELSE [tag |-> "Ok", err |-> "", set |-> {}]

\* what a later load_history reads from the file
Ledger(d) == load_history(d, TRUE).set

(* -------------------------------- Init -------------------------------- *)
Init ==
    /\ pc = "start"
    /\ rerun = FALSE
    /\ disk \in Disks
    /\ meta \in FileMeta
    /\ base_url = ""
    /\ album_id = ""
    /\ history = {}
    /\ entries = <<>>
    /\ idx = 1
    /\ filename = 1
    /\ response = NoResponse
    /\ asset_id = ""
    /\ count = 0
    /\ resolved = NoCall
    /\ loaded = {}
    /\ invoked = <<>>
    /\ uploadReqs = <<>>
    /\ linkReqs = <<>>
    /\ nonFailed = {}
    /\ committed = {}
    /\ preDisk = disk
    /\ exit = ""
    /\ located = NoListing
    /\ link = "none"
    /\ allCreated = TRUE
    /\ prev = "none"

(* ------------------------------- actions ------------------------------ *)
\* main 52-65: read the two urls, get_active_url
Resolve ==
    /\ pc = "start"
    /\ \E local \in Urls, external \in Urls, probe \in ProbeResults :
          LET r == get_active_url(local, external, probe) IN
          /\ resolved' = [called |-> TRUE, local |-> local, external |-> external,
                          probe |-> IF r.probes = <<>> THEN "none" ELSE probe,
                          chose |-> r.chose, probes |-> r.probes]
          /\ base_url' = r.url
          /\ pc' = IF r.url = "" THEN "aborted" ELSE "locating"
          /\ exit' = IF r.url = "" THEN "no_endpoint" ELSE ""
    /\ UNCHANGED <<rerun, disk, meta, album_id, history, entries, idx, filename,
                   response, asset_id, count, loaded, invoked, uploadReqs,
                   linkReqs, nonFailed, committed, preDisk, prev, located, link,
                   allCreated>>

\* a Locate that propagates the get_album_id error with ? and leaves main with it
Locate_propagates ==
    /\ pc = "locating"
    /\ \E listing \in ListingResponses :
          LET r == get_album_id(listing, album_name) IN
          /\ album_id' = r.id
          /\ located' = [called |-> TRUE, reqs |-> r.reqs, t |-> listing.t,
                         albums |-> listing.albums, tag |-> r.tag, id |-> r.id]
          /\ pc' = IF r.tag = "Some" THEN "loading"
                   ELSE IF r.tag = "None" THEN "aborted"
                   ELSE "error"
          /\ exit' = IF r.tag = "Some" THEN ""
                     ELSE IF r.tag = "None" THEN "album_not_found"
                     ELSE "listing_error"
    /\ resolved' = NoCall
    /\ UNCHANGED <<rerun, disk, meta, base_url, history, entries, idx, filename,
                   response, asset_id, count, loaded, invoked, uploadReqs,
                   linkReqs, nonFailed, committed, preDisk, prev, link,
                   allCreated>>

\* main 67-79: get_album_id
Locate ==
    /\ pc = "locating"
    /\ \E listing \in ListingResponses :
          LET r == get_album_id(listing, album_name) IN
          /\ album_id' = r.id
          /\ located' = [called |-> TRUE, reqs |-> r.reqs, t |-> listing.t,
                         albums |-> listing.albums, tag |-> r.tag, id |-> r.id]
          /\ pc' = IF r.tag = "Some" THEN "loading" ELSE "aborted"
          /\ exit' = IF r.tag = "Some" THEN ""
                     ELSE IF r.tag = "None" THEN "album_not_found"
                     ELSE "listing_error"
    /\ resolved' = NoCall
    /\ UNCHANGED <<rerun, disk, meta, base_url, history, entries, idx, filename,
                   response, asset_id, count, loaded, invoked, uploadReqs,
                   linkReqs, nonFailed, committed, preDisk, prev, link,
                   allCreated>>

\* main 82: load_history()?
LoadHistory ==
    /\ pc = "loading"
    /\ \E openOk \in BOOLEAN :
          LET r == load_history(disk, openOk) IN
          /\ history' = r.set
          /\ loaded' = r.set
          /\ pc' = IF r.tag = "Ok" THEN "scanning" ELSE "error"
          /\ exit' = IF r.tag = "Ok" THEN "" ELSE r.err
    /\ located' = NoListing
    /\ UNCHANGED <<rerun, disk, meta, base_url, album_id, entries, idx,
                   filename, response, asset_id, count, resolved, invoked,
                   uploadReqs, linkReqs, nonFailed, committed, preDisk, prev,
                   link, allCreated>>

\* main 83-87: the folder does not exist
FolderMissing ==
    /\ pc = "scanning"
    /\ pc' = "aborted"
    /\ exit' = "folder_missing"
    /\ UNCHANGED <<rerun, disk, meta, base_url, album_id, history, entries, idx,
                   filename, response, asset_id, count, resolved, loaded,
                   invoked, uploadReqs, linkReqs, nonFailed, committed, preDisk,
                   prev, located, link, allCreated>>

\* main 90: fs::read_dir(path)? fails
ReadDirFails ==
    /\ pc = "scanning"
    /\ pc' = "error"
    /\ exit' = "read_dir_error"
    /\ UNCHANGED <<rerun, disk, meta, base_url, album_id, history, entries, idx,
                   filename, response, asset_id, count, resolved, loaded,
                   invoked, uploadReqs, linkReqs, nonFailed, committed, preDisk,
                   prev, located, link, allCreated>>

\* main 90-106: the entries that enumerate without error, in the order
\* read_dir yields them, sorted by modification time
Scan ==
    /\ pc = "scanning"
    /\ \E ok \in SUBSET Filenames : \E order \in Orders(ok) :
          entries' = sort_by_key(order, meta)
    /\ idx' = 1
    /\ count' = 0
    /\ pc' = "loop"
    /\ UNCHANGED <<rerun, disk, meta, base_url, album_id, history, filename,
                   response, asset_id, resolved, loaded, invoked, uploadReqs,
                   linkReqs, nonFailed, committed, preDisk, prev, exit, located,
                   link, allCreated>>

\* main 107-112: the entry is in the ledger
SkipLedgered ==
    /\ pc = "loop"
    /\ idx <= Len(entries)
    /\ contains(history, entries[idx])
    /\ idx' = idx + 1
    /\ UNCHANGED <<pc, rerun, disk, meta, base_url, album_id, history, entries,
                   filename, response, asset_id, count, resolved, loaded,
                   invoked, uploadReqs, linkReqs, nonFailed, committed, preDisk,
                   prev, exit, located, link, allCreated>>

\* main 107-115: upload_asset is called for the entry
BeginUpload ==
    /\ pc = "loop"
    /\ idx <= Len(entries)
    /\ ~contains(history, entries[idx])
    /\ filename' = entries[idx]
    /\ invoked' = Append(invoked, entries[idx])
    /\ link' = "none"
    /\ pc' = "uploading"
    /\ UNCHANGED <<rerun, disk, meta, base_url, album_id, history, entries, idx,
                   response, asset_id, count, resolved, loaded, uploadReqs,
                   linkReqs, nonFailed, committed, preDisk, prev, exit, located,
                   allCreated>>

\* an UploadAsset that propagates the upload_asset error with ? and leaves
\* main with it
UploadAsset_propagates ==
    /\ pc = "uploading"
    /\ \E readOk \in BOOLEAN, resp \in ServerResponses :
          LET r == upload_asset(meta[filename], readOk, resp) IN
          /\ uploadReqs' = IF r.sent THEN Append(uploadReqs, filename) ELSE uploadReqs
          /\ nonFailed' = IF r.sent /\ UploadOutcome(resp) \in NonFailedOutcomes
                          THEN nonFailed \cup {filename} ELSE nonFailed
          /\ allCreated' = (allCreated /\ r.sent /\ UploadOutcome(resp) = "Created")
          /\ IF r.tag = "Some"
             THEN /\ pc' = IF ShouldLink(r.id) THEN "linking" ELSE "committing"
                  /\ response' = resp
                  /\ asset_id' = r.id
                  /\ idx' = idx
                  /\ exit' = ""
             ELSE IF r.tag = "None"
             THEN /\ pc' = "loop"
                  /\ response' = NoResponse
                  /\ asset_id' = ""
                  /\ idx' = idx + 1
                  /\ exit' = ""
             ELSE /\ pc' = "error"
                  /\ response' = NoResponse
                  /\ asset_id' = ""
                  /\ idx' = idx
                  /\ exit' = "upload_error"
    /\ UNCHANGED <<rerun, disk, meta, base_url, album_id, history, entries,
                   filename, count, resolved, loaded, invoked, linkReqs,
                   committed, preDisk, prev, located, link>>

\* an UploadAsset that leaves the index where it is after a failed upload, so
\* that the loop takes the same entry again
UploadAsset_retries ==
    /\ pc = "uploading"
    /\ \E readOk \in BOOLEAN, resp \in ServerResponses :
          LET r == upload_asset(meta[filename], readOk, resp) IN
          /\ uploadReqs' = IF r.sent THEN Append(uploadReqs, filename) ELSE uploadReqs
          /\ nonFailed' = IF r.sent /\ UploadOutcome(resp) \in NonFailedOutcomes
                          THEN nonFailed \cup {filename} ELSE nonFailed
          /\ allCreated' = (allCreated /\ r.sent /\ UploadOutcome(resp) = "Created")
          /\ IF r.tag = "Some"
             THEN /\ pc' = IF ShouldLink(r.id) THEN "linking" ELSE "committing"
                  /\ response' = resp
                  /\ asset_id' = r.id
                  /\ idx' = idx
             ELSE /\ pc' = "loop"
                  /\ response' = NoResponse
                  /\ asset_id' = ""
                  /\ idx' = idx
    /\ UNCHANGED <<rerun, disk, meta, base_url, album_id, history, entries,
                   filename, count, resolved, loaded, invoked, linkReqs,
                   committed, preDisk, prev, exit, located, link>>

\* upload_asset 188-242 and the match on its result, main 115-117, 126-127
UploadAsset ==
    /\ pc = "uploading"
    /\ \E readOk \in BOOLEAN, resp \in ServerResponses :
          LET r == upload_asset(meta[filename], readOk, resp) IN
          /\ uploadReqs' = IF r.sent THEN Append(uploadReqs, filename) ELSE uploadReqs
          /\ nonFailed' = IF r.sent /\ UploadOutcome(resp) \in NonFailedOutcomes
                          THEN nonFailed \cup {filename} ELSE nonFailed
          /\ allCreated' = (allCreated /\ r.sent /\ UploadOutcome(resp) = "Created")
          /\ IF r.tag = "Some"
             THEN /\ pc' = IF ShouldLink(r.id) THEN "linking" ELSE "committing"
                  /\ response' = resp
                  /\ asset_id' = r.id
                  /\ idx' = idx
             ELSE /\ pc' = "loop"
                  /\ response' = NoResponse
                  /\ asset_id' = ""
                  /\ idx' = idx + 1
    /\ UNCHANGED <<rerun, disk, meta, base_url, album_id, history, entries,
                   filename, count, resolved, loaded, invoked, linkReqs,
                   committed, preDisk, prev, exit, located, link>>

\* an AddToAlbum that treats a failed link as a per-file error: the file is
\* left out of the ledger and the loop goes on
AddToAlbum_propagates ==
    /\ pc = "linking"
    /\ \E linkResult \in {"ok", "transport_error", "error_status"} :
          /\ linkReqs' = Append(linkReqs, <<filename, asset_id>>)
          /\ link' = IF linkResult = "ok" THEN "ok" ELSE "failed"
          /\ IF linkResult = "ok"
             THEN pc' = "committing" /\ UNCHANGED <<idx, response, asset_id>>
             ELSE /\ pc' = "loop"
                  /\ idx' = idx + 1
                  /\ response' = NoResponse
                  /\ asset_id' = ""
    /\ UNCHANGED <<rerun, disk, meta, base_url, album_id, history, entries,
                   filename, count, resolved, loaded, invoked, uploadReqs,
                   nonFailed, committed, preDisk, prev, exit, located,
                   allCreated>>

\* add_to_album 173-186, main 118-120: the result is logged and dropped
AddToAlbum ==
    /\ pc = "linking"
    /\ \E linkResult \in {"ok", "transport_error", "error_status"} :
          /\ linkReqs' = Append(linkReqs, <<filename, asset_id>>)
          /\ link' = IF linkResult = "ok" THEN "ok" ELSE "failed"
    /\ pc' = "committing"
    /\ UNCHANGED <<rerun, disk, meta, base_url, album_id, history, entries, idx,
                   filename, response, asset_id, count, resolved, loaded,
                   invoked, uploadReqs, nonFailed, committed, preDisk, prev,
                   exit, located, allCreated>>

\* main 122 and save_history 254: history.insert, then File::create truncates
\* the file in place or fails
InsertAndCreate ==
    /\ pc = "committing"
    /\ history' = history \cup {filename}
    /\ response' = NoResponse
    /\ asset_id' = ""
    /\ \E createOk \in BOOLEAN :
          IF createOk
          THEN disk' = Partial /\ pc' = "writing" /\ exit' = ""
          ELSE disk' = disk /\ pc' = "error" /\ exit' = "save_error"
    /\ UNCHANGED <<rerun, meta, base_url, album_id, entries, idx, filename,
                   count, resolved, loaded, invoked, uploadReqs, linkReqs,
                   nonFailed, committed, preDisk, prev, located, link,
                   allCreated>>

\* a WriteList that counts the file and leaves the writing of the list for later
WriteList_defers ==
    /\ pc = "writing"
    /\ \E writeOk \in BOOLEAN :
          IF writeOk
          THEN /\ disk' = disk
               /\ committed' = committed \cup {filename}
               /\ count' = count + 1
               /\ idx' = idx + 1
               /\ pc' = "loop"
               /\ exit' = ""
          ELSE /\ disk' = Partial
               /\ UNCHANGED <<committed, count, idx>>
               /\ pc' = "error"
               /\ exit' = "save_error"
    /\ UNCHANGED <<response, asset_id, rerun, meta, base_url, album_id, history,
                   entries, filename, resolved, loaded, invoked, uploadReqs,
                   linkReqs, nonFailed, preDisk, prev, located, link,
                   allCreated>>

\* save_history 255-257, main 123-124: the list is written, or the write fails
WriteList ==
    /\ pc = "writing"
    /\ \E writeOk \in BOOLEAN :
          IF writeOk
          THEN /\ disk' = ListFile(history)
               /\ committed' = committed \cup {filename}
               /\ count' = count + 1
               /\ idx' = idx + 1
               /\ pc' = "loop"
               /\ exit' = ""
          ELSE /\ disk' = Partial
               /\ UNCHANGED <<committed, count, idx>>
               /\ pc' = "error"
               /\ exit' = "save_error"
    /\ UNCHANGED <<response, asset_id, rerun, meta, base_url, album_id, history,
                   entries, filename, resolved, loaded, invoked, uploadReqs,
                   linkReqs, nonFailed, preDisk, prev, located, link,
                   allCreated>>

\* main 131-137: the loop is over
Finish ==
    /\ pc = "loop"
    /\ idx > Len(entries)
    /\ pc' = "done"
    /\ exit' = "finished"
    /\ UNCHANGED <<rerun, disk, meta, base_url, album_id, history, entries, idx,
                   filename, response, asset_id, count, resolved, loaded,
                   invoked, uploadReqs, linkReqs, nonFailed, committed, preDisk,
                   prev, located, link, allCreated>>

\* the tool is started again: only HISTORY_FILE and the directory carry over
NextRun ==
    /\ pc \in Ended
    /\ ~rerun
    /\ rerun' = TRUE
    /\ prev' = IF pc # "done" \/ SeqToSet(entries) # Filenames THEN "stopped"
                ELSE IF Filenames \subseteq history THEN "synced"
                ELSE "unsynced"
    /\ preDisk' = disk
    /\ pc' = "start"
    /\ base_url' = ""
    /\ album_id' = ""
    /\ history' = {}
    /\ entries' = <<>>
    /\ idx' = 1
    /\ filename' = 1
    /\ response' = NoResponse
    /\ asset_id' = ""
    /\ count' = 0
    /\ resolved' = NoCall
    /\ loaded' = {}
    /\ invoked' = <<>>
    /\ uploadReqs' = <<>>
    /\ linkReqs' = <<>>
    /\ nonFailed' = {}
    /\ committed' = {}
    /\ exit' = ""
    /\ located' = NoListing
    /\ link' = "none"
    /\ allCreated' = TRUE
    /\ UNCHANGED <<disk, meta>>

\* the process is terminated from outside, at any point of a run
Crash ==
    /\ pc \notin Ended
    /\ pc' = "crashed"
    /\ exit' = "killed"
    /\ UNCHANGED <<rerun, disk, meta, base_url, album_id, history, entries, idx,
                   filename, response, asset_id, count, resolved, loaded,
                   invoked, uploadReqs, linkReqs, nonFailed, committed, preDisk,
                   prev, located, link, allCreated>>

Next ==
    \/ Resolve
    \/ Locate
    \/ LoadHistory
    \/ FolderMissing
    \/ ReadDirFails
    \/ Scan
    \/ SkipLedgered
    \/ BeginUpload
    \/ UploadAsset
    \/ AddToAlbum
    \/ InsertAndCreate
    \/ WriteList
    \/ Finish
    \/ NextRun

Spec == Init /\ [][Next]_vars

NextCrash == Next \/ Crash

SpecCrash == Init /\ [][NextCrash]_vars

(* ------------------------- vocabulary of the claims ------------------- *)
\* an iteration of the for loop is between its upload_asset call and its end
InFlight == pc \in {"uploading", "linking", "committing", "writing"}

\* the file of the iteration has a non-Failed outcome and is not inserted yet
PendingCommit == IF pc \in {"linking", "committing"} THEN {filename} ELSE {}

\* the positions of the link requests sent for f
LinksOf(f) == {i \in 1..Len(linkReqs) : linkReqs[i][1] = f}

\* what the file held when the run began, as load_history reads it
PreLedger == Ledger(preDisk)

\* no element occurs twice in the log s
NoRepeat(s) == \A i, j \in 1..Len(s) : s[i] = s[j] => i = j

\* the files of the link requests, in order
LinkedFiles == [i \in 1..Len(linkReqs) |-> linkReqs[i][1]]

Readable(f) == meta[f] # NoMetadata

C2_LedgeredNeverUploaded ==
    \A f \in loaded :
        /\ f \notin SeqToSet(invoked)
        /\ f \notin SeqToSet(uploadReqs)
        /\ LinksOf(f) = {}

\* a finished run that listed a ledgered file next to one it uploaded
C2_Witness ==
    /\ pc = "done"
    /\ loaded \cap SeqToSet(entries) # {}
    /\ uploadReqs # <<>>

(* -------------------------------- C3 ---------------------------------- *)
\* C3 as stated: after a first run that listed every file and reached the end
\* of main, whatever the outcomes of its uploads, the second run sends no
\* upload request.
C3_SecondRunUploadsNothing ==
    rerun /\ prev \in {"synced", "unsynced"} => uploadReqs = <<>>

\* C3 amended: if the first run reached the end of main with every file in its
\* ledger, the second run calls upload_asset for no file and sends no request.
C3_Idempotent ==
    rerun /\ prev = "synced" => invoked = <<>> /\ uploadReqs = <<>> /\ linkReqs = <<>>

\* a second run, after a first one that synced every file, that lists every
\* file again and reaches the end of main
C3_Witness ==
    /\ rerun
    /\ prev = "synced"
    /\ pc = "done"
    /\ SeqToSet(entries) = Filenames
    /\ count = 0

(* -------------------------------- C4 ---------------------------------- *)
\* C4: once a run has ended, the ledger in memory and the ledger on disk both
\* contain the ledger as it was before the run.
C4_LedgerMonotone ==
    pc \in {"done", "aborted", "error"} =>
        /\ loaded \subseteq history
        /\ PreLedger \subseteq Ledger(disk)

(* -------------------------------- C5 ---------------------------------- *)
\* C5: when an iteration reaches its commit, no link request was sent for its
\* file if the outcome is RejectedDuplicate(unknown), and exactly one, with
\* the asset id of the response, for every other non-Failed outcome.
C5_LinkGating ==
    pc = "committing" =>
        IF UploadOutcome(response) = "RejectedUnknown"
        THEN LinksOf(filename) = {}
        ELSE /\ Cardinality(LinksOf(filename)) = 1
             /\ \A i \in LinksOf(filename) : linkReqs[i][2] = response.body

(* -------------------------------- C6 ---------------------------------- *)
\* C6: after the process is terminated, the ledger the next run loads holds
\* every name the ledger held when the run began and every name whose
\* save_history had returned.
C6_CrashKeepsLedger ==
    pc = "crashed" => (PreLedger \cup committed) \subseteq Ledger(disk)

(* -------------------------------- C7 ---------------------------------- *)
\* C7: at every instant of a run, also in the middle of a commit, what the
\* file yields when loaded is either the list before the commit (the names at
\* the start of the run and those committed since) or the list after it.
C7_AtomicRewrite ==
    \/ Ledger(disk) = PreLedger \cup committed
    \/ Ledger(disk) = PreLedger \cup committed \cup {filename}

(* -------------------------------- C8 ---------------------------------- *)
\* C8: upload_asset is called in non-decreasing modification-time order; while
\* an iteration is under way its file is the last one called, every listed
\* unledgered file with an older timestamp was called before it, and every
\* earlier file with a non-Failed outcome is already committed.
C8_Ordering ==
    /\ \A i, j \in 1..Len(invoked) :
          i < j /\ Readable(invoked[i]) /\ Readable(invoked[j])
            => meta[invoked[i]] <= meta[invoked[j]]
    /\ InFlight =>
          /\ invoked # <<>>
          /\ filename = invoked[Len(invoked)]
          /\ \A g \in SeqToSet(entries) \ loaded :
                Readable(g) /\ Readable(filename) /\ meta[g] < meta[filename]
                  => \E i \in 1..(Len(invoked) - 1) : invoked[i] = g
          /\ \A i \in 1..(Len(invoked) - 1) :
                invoked[i] \in nonFailed => invoked[i] \in committed

\* the newer of two files is being uploaded after the older one was committed,
\* the older one having the larger name
C8_Witness ==
    /\ pc = "uploading"
    /\ Len(invoked) = 2
    /\ Readable(invoked[1])
    /\ meta[invoked[1]] < meta[invoked[2]]
    /\ invoked[1] > invoked[2]
    /\ invoked[1] \in committed

(* -------------------------------- C9 ---------------------------------- *)
\* C9: get_active_url returns the primary iff it is set and its probe got any
\* answer, otherwise the fallback iff it is set, otherwise nothing; it sends
\* at most one probe, to the primary only, and none when the primary is unset.
C9_EndpointPreference ==
    resolved.called =>
        LET primaryOk == resolved.local # ""
                           /\ resolved.probe \in {"status_200", "status_404"}
        IN  /\ resolved.chose = "primary" <=> primaryOk
            /\ resolved.chose = "fallback" <=> ~primaryOk /\ resolved.external # ""
            /\ resolved.chose = "none" <=> ~primaryOk /\ resolved.external = ""
            /\ resolved.chose = "primary" => base_url = resolved.local
            /\ resolved.chose = "fallback" => base_url = resolved.external
            /\ resolved.chose = "none" => base_url = "" /\ pc = "aborted"
            /\ resolved.chose # "none" => pc = "locating"
            /\ Len(resolved.probes) <= 1
            /\ resolved.probes = IF resolved.local # "" THEN <<resolved.local>> ELSE <<>>

\* the primary answered the probe with an error status and was chosen over a
\* different fallback
C9_Witness ==
    /\ resolved.called
    /\ resolved.probe = "status_404"
    /\ resolved.external \notin {"", resolved.local}
    /\ base_url = resolved.local
    /\ pc = "locating"

(* -------------------------------- C10 --------------------------------- *)
\* C10: a run that has called upload_asset for a file ends at the end of
\* main, with every listed entry passed and a normal exit.
C10_FileFailureNeverEndsRun ==
    pc \in {"done", "aborted", "error"} /\ invoked # <<>> =>
        pc = "done" /\ idx = Len(entries) + 1

(* -------------------------------- C11 --------------------------------- *)
\* the reasons for which main returns Ok(()) before the loop, main 58-87
RunFatal == {"no_endpoint", "listing_error", "album_not_found", "folder_missing"}

\* C11: when no endpoint is resolved, the album listing fails, no album has
\* the name, or the source directory is missing, the run ends in Aborted,
\* which is a normal exit: the ledger file is what it was when the run began
\* and no upload_asset call, upload request or link request was made. Aborted
\* has no other cause.
C11_RunFatalAborts ==
    /\ resolved.called /\ resolved.chose = "none" => exit = "no_endpoint"
    /\ located.called /\ located.t # "ok" => exit = "listing_error"
    /\ (located.called /\ located.t = "ok"
          /\ \A i \in 1..Len(located.albums) :
                located.albums[i].album_name # album_name)
        => exit = "album_not_found"
    /\ pc = "aborted" <=> exit \in RunFatal
    /\ exit \in RunFatal =>
          /\ disk = preDisk
          /\ invoked = <<>> /\ uploadReqs = <<>> /\ linkReqs = <<>>
          /\ committed = {} /\ count = 0

\* the ledger was loaded from a list of names and the directory is missing
C11_Witness ==
    /\ exit = "folder_missing" /\ pc = "aborted"
    /\ preDisk.kind = "list" /\ preDisk.names # {}
    /\ history = preDisk.names

Unledgered == SeqToSet(entries) \ loaded

\* C13: at Done, count is the number of names the run added to the ledger,
\* in memory and on disk (size after minus size before); it is zero exactly
\* when no file was committed; and when every upload_asset call of the run
\* ended in Created, the ledger is the loaded ledger plus exactly the
\* unledgered entries and each of them was linked exactly once.
C13_CountIsLedgerGrowth ==
    pc = "done" =>
        /\ count = Cardinality(history) - Cardinality(loaded)
        /\ count = Cardinality(Ledger(disk)) - Cardinality(PreLedger)
        /\ count = 0 <=> committed = {}
        /\ allCreated =>
              /\ history = loaded \cup Unledgered
              /\ Ledger(disk) = loaded \cup Unledgered
              /\ \A f \in Unledgered : Cardinality(LinksOf(f)) = 1

(* -------------------------------- C14 --------------------------------- *)
\* the files whose upload_asset call is over and did not end in a non-Failed
\* outcome: local read error, transport error, unexpected status, unparseable
\* body of a 201 or 200
UploadErrored ==
    {f \in SeqToSet(invoked) : f \notin nonFailed /\ ~(pc = "uploading" /\ f = filename)}

\* the reasons for which main returns Err
ErrExits == {"open_error", "read_dir_error", "save_error"}

\* C14 as stated: a file whose upload step or link step ended in an error is
\* not in the ledger in this run, and no such error ends the run.
C14_StepErrorLeavesUnrecorded ==
    /\ \A f \in UploadErrored : f \notin history /\ f \notin Ledger(disk)
    /\ link = "failed" => filename \notin history /\ filename \notin Ledger(disk)
    /\ pc = "error" => exit \in ErrExits

\* C14: a file whose upload step ended in an error is in the ledger neither
\* in memory nor on disk and was not linked, the loop went on to the next
\* entry, and the run never ends with an error because of it; main returns
\* Err only from load_history, read_dir and save_history.
C14_UploadErrorLeavesUnrecorded ==
    /\ \A k \in 1..Len(invoked) :
          invoked[k] \notin nonFailed /\ ~(pc = "uploading" /\ invoked[k] = filename)
          => /\ invoked[k] \notin history /\ invoked[k] \notin committed
             /\ invoked[k] \notin Ledger(disk)
             /\ \A j \in 1..Len(linkReqs) : LinkedFiles[j] # invoked[k]
             /\ \E i \in 1..Len(entries) : entries[i] = invoked[k] /\ i < idx
    /\ pc = "error" => exit \in ErrExits
    /\ exit = "save_error" => filename \in nonFailed

\* a run is over in which the upload of one file failed and the file after
\* it was committed
C14_Witness ==
    /\ pc = "done" /\ Len(entries) = 2
    /\ entries[1] \in UploadErrored /\ entries[1] \in SeqToSet(uploadReqs)
    /\ entries[2] \in committed

(* -------------------------------- C15 --------------------------------- *)
\* how many times x occurs in the log s
Occurrences(s, x) == Cardinality({i \in 1..Len(s) : s[i] = x})

\* C15: in a run upload_asset is called at most once per file, at most one
\* upload request and at most one link request are sent per file; a file
\* whose upload failed is not in the ledger file when the run is over; and a
\* run that reaches Done has called upload_asset for every entry that the
\* ledger it loaded did not hold, so the next run uploads such a file again.
C15_NoRetries ==
    /\ NoRepeat(invoked)
    /\ NoRepeat(uploadReqs)
    /\ NoRepeat(LinkedFiles)
    /\ pc \in Ended => \A f \in UploadErrored : f \notin Ledger(disk)
    /\ pc = "done" => Unledgered = SeqToSet(invoked)
    /\ rerun /\ prev = "unsynced" /\ pc = "done" /\ SeqToSet(entries) = Filenames
          => invoked # <<>> /\ SeqToSet(invoked) = Filenames \ PreLedger

\* the first run left a file unrecorded and the second run has sent an upload
\* request for a file again
C15_Witness ==
    /\ rerun /\ prev = "unsynced" /\ pc = "done"
    /\ uploadReqs # <<>>
    /\ SeqToSet(uploadReqs) \cap PreLedger = {}

(* -------------------------------- C16 --------------------------------- *)
\* C16: for an entry whose metadata cannot be read no upload request and no
\* link request is sent and the run does not add it to the ledger; a file
\* that read_dir did not yield is not handed to upload_asset at all; and the
\* loop goes on: the unreadable entry lies behind the index once its
\* upload_asset call is over, a run ends with an error only for load_history,
\* read_dir or save_history, never on an unreadable entry, and at Done every
\* entry the loaded ledger did not hold has been handed to upload_asset.
C16_UnreadableEntrySkipped ==
    /\ \A f \in Filenames : ~Readable(f) =>
          /\ Occurrences(uploadReqs, f) = 0
          /\ LinksOf(f) = {}
          /\ f \notin nonFailed /\ f \notin committed
          /\ f \in history => f \in loaded
          /\ f \in Ledger(disk) => f \in PreLedger
          /\ f \in UploadErrored =>
                \E i \in 1..Len(entries) : entries[i] = f /\ i < idx
    /\ \A f \in Filenames \ SeqToSet(entries) :
          /\ Occurrences(invoked, f) = 0 /\ Occurrences(uploadReqs, f) = 0
          /\ f \notin committed
    /\ pc = "error" => exit \in ErrExits
    /\ exit = "save_error" => Readable(filename)
    /\ pc = "done" => Unledgered = SeqToSet(invoked)

\* a run is over in which upload_asset was called for an entry without
\* readable metadata and the entry after it was committed
C16_Witness ==
    /\ pc = "done" /\ Len(entries) = 2
    /\ ~Readable(entries[1]) /\ entries[1] \in SeqToSet(invoked)
    /\ entries[1] \notin history
    /\ Readable(entries[2]) /\ entries[2] \in committed

(* -------------------------------- C17 --------------------------------- *)
\* the positions of the listing whose album has the name
Matches == {i \in 1..Len(located.albums) : located.albums[i].album_name = album_name}

\* C17: get_album_id sends exactly one listing request; on a successful
\* listing album_id is the id of the album at the least position whose name
\* is the target and the run goes on, and the result is not-found exactly
\* when no album has the name; a failed listing (transport error, error
\* status, unparseable body) ends the run and no second request is sent.
C17_FirstMatchingAlbum ==
    located.called =>
        /\ located.reqs = 1
        /\ located.t = "ok" /\ Matches # {} =>
              /\ \E i \in Matches :
                    /\ \A j \in Matches : i <= j
                    /\ album_id = located.albums[i].id
              /\ located.tag = "Some" /\ pc = "loading"
        /\ located.t = "ok" =>
              (located.tag = "None" <=> Matches = {})
        /\ located.tag = "None" => pc = "aborted" /\ exit = "album_not_found"
        /\ located.t # "ok" =>
              /\ located.tag = "Err"
              /\ pc = "aborted" /\ exit = "listing_error"
              /\ album_id = ""

\* two albums have the name, under different ids, and the first one is taken
C17_Witness ==
    /\ located.called /\ located.t = "ok"
    /\ Matches = {1, 2}
    /\ located.albums[1].id # located.albums[2].id
    /\ album_id = located.albums[1].id
    /\ pc = "loading"

(* -------------------------------- C18 --------------------------------- *)
\* a step of the run in progress
RunStep ==
    \/ Resolve \/ Locate \/ LoadHistory \/ FolderMissing \/ ReadDirFails \/ Scan
    \/ SkipLedgered \/ BeginUpload \/ UploadAsset \/ AddToAlbum
    \/ InsertAndCreate \/ WriteList \/ Finish

\* C18: a run that can take no further step is in Done or Aborted; a probe
\* of the primary that does not get through is followed by the rest of the
\* run; and the loop is bounded: the index never passes the end of the
\* entries by more than one and upload_asset is called at most once per
\* entry.
C18_RunEndsDoneOrAborted ==
    /\ ~ENABLED RunStep => pc \in {"done", "aborted"}
    /\ resolved.called /\ resolved.probe = "transport_error" =>
          pc \in {"locating", "aborted"} /\ Len(resolved.probes) <= 1
    /\ idx <= Len(entries) + 1
    /\ Len(invoked) <= Len(entries)

(* -------------------------------- C19 --------------------------------- *)
\* C19: when HISTORY_FILE exists at the start of a run and does not parse,
\* load_history returns the empty set and no parse error ends the run; the
\* loop skips nothing, so that at Done upload_asset has been called for every
\* entry; until the first commit the file is untouched, and from the first
\* commit on it lists the names committed in this run and nothing else.
C19_UnparseableLedgerIsEmpty ==
    preDisk.kind = "partial" =>
        /\ exit # "parse_error"
        /\ pc = "error" => exit \in ErrExits
        /\ pc \notin {"start", "locating", "loading"} /\ exit # "open_error" =>
              loaded = {} /\ history = committed \cup (IF pc \in {"writing", "error"}
                                                        THEN {filename} \cap nonFailed
                                                        ELSE {})
        /\ pc = "done" => SeqToSet(invoked) = SeqToSet(entries)
        /\ committed = {} /\ pc \notin {"writing", "error"} => disk = preDisk
        /\ committed # {} /\ pc \notin {"writing", "error"} =>
              disk = ListFile(committed)

\* a run that began with an unparseable file has called upload_asset for both
\* files and the file now lists what it committed
C19_Witness ==
    /\ preDisk.kind = "partial" /\ pc = "done"
    /\ Len(invoked) = MaxFiles
    /\ committed # {} /\ disk = ListFile(committed)

(* -------------------------------- C20 --------------------------------- *)
\* C20: at the top of every iteration and at Done the names the file holds
\* are the in-memory ledger, and the file is the written list as soon as the
\* run has committed a file or has loaded a list; and outside the commit
\* itself the in-memory ledger is the loaded ledger plus the names whose
\* save_history has returned Ok, and nothing else.
C20_DiskIsMemoryBetweenCommits ==
    /\ pc \in {"loop", "done"} =>
          /\ Ledger(disk) = history
          /\ loaded = PreLedger
          /\ committed # {} \/ preDisk.kind = "list" => disk = ListFile(history)
          /\ committed = {} => disk = preDisk
    /\ pc \in {"loop", "uploading", "linking", "committing", "done"} =>
          /\ history = loaded \cup committed
          /\ history \ loaded \subseteq Ledger(disk)

\* the loop is at the top of its second iteration after a commit
C20_Witness ==
    /\ pc = "loop" /\ idx = 2 /\ Len(entries) = 2
    /\ committed = {entries[1]}
    /\ preDisk.kind = "list" /\ preDisk.names = {}
    /\ disk = ListFile(history)

====
